---- MODULE Spec2Model ----
(***************************************************************************)
(* A model of bibo, a command line front-end for local text-to-speech:     *)
(* the voice catalog (src/src/tts/voice.rs), the voice downloader with     *)
(* fallback mirrors (src/src/download/mod.rs), the sherpa-onnx engine      *)
(* downloader (src/src/download/sherpa.rs), the synthesis engine wrapper   *)
(* (src/src/tts/engine.rs) and the CLI dispatch (src/src/main.rs,          *)
(* src/src/cli.rs).                                                        *)
(*                                                                         *)
(* The file system is the only durable state.  It is modelled as the set   *)
(* `files` of the paths that exist, with `torn` the files whose content is *)
(* incomplete.  Network transfers, the archive tool, the engine process    *)
(* and the audio device are the environment: each of their outcomes is a   *)
(* nondeterministic choice made in the step that uses it.                  *)
(***************************************************************************)
EXTENDS Integers, Sequences, FiniteSets, TLC

VARIABLES
    files,   \* the paths that exist, each <<kind, key>>
    torn,    \* the files of `files` that were created but not completely written
    pc,      \* pc[p]: the position of thread p
    fr,      \* fr[p]: the locals of the download_voice call thread p is in
    ret,     \* ret[p]: what the last download_voice call of thread p returned
    log,     \* the observable events of the current call, in order
    sh,      \* the locals of SherpaDownloader::download
    cli,     \* the parsed command line of main
    mn,      \* the locals of main
    calls    \* how many calls the caller of the library has made

vars == <<files, torn, pc, fr, ret, log, sh, cli, mn, calls>>

(***************************************************************************)
(* Strings.  TLC evaluates Len, SubSeq and \o on strings, so Rust's &str   *)
(* operations are computed character by character.                         *)
(***************************************************************************)
\* the character at index i, or "" when there is none
Ch(s, i) == IF 1 <= i /\ i <= Len(s) THEN SubSeq(s, i, i) ELSE ""

UpperChars == "ABCDEFGHIJKLMNOPQRSTUVWXYZ"
LowerChars == "abcdefghijklmnopqrstuvwxyz"

\* char::to_ascii_lowercase / to_lowercase on the ASCII range
LowerTable ==
    [c \in {Ch(UpperChars, i) : i \in 1..Len(UpperChars)} |->
        Ch(LowerChars, CHOOSE i \in 1..Len(UpperChars) : Ch(UpperChars, i) = c)]

LowerChar(c) == IF c \in DOMAIN LowerTable THEN LowerTable[c] ELSE c

RECURSIVE to_lowercase(_)
to_lowercase(s) ==
    IF s = "" THEN "" ELSE LowerChar(Head(s)) \o to_lowercase(Tail(s))

\* str::eq_ignore_ascii_case
eq_ignore_ascii_case(a, b) ==
    /\ Len(a) = Len(b)
    /\ \A i \in 1..Len(a) : LowerChar(Ch(a, i)) = LowerChar(Ch(b, i))

\* str::contains(&str)
contains(s, sub) ==
    \E i \in 1..(Len(s) + 1) :
        /\ i + Len(sub) - 1 <= Len(s)
        /\ SubSeq(s, i, i + Len(sub) - 1) = sub

\* char::is_whitespace, on the characters the inputs are drawn from
is_whitespace(c) == c \in {" ", "\n", "\t", "\r"}

\* char::is_ascii_digit
is_ascii_digit(c) == c \in {"0", "1", "2", "3", "4", "5", "6", "7", "8", "9"}

RECURSIVE trim_start(_)
trim_start(s) ==
    IF s # "" /\ is_whitespace(Head(s)) THEN trim_start(Tail(s)) ELSE s

RECURSIVE trim_end(_)
trim_end(s) ==
    IF s # "" /\ is_whitespace(Ch(s, Len(s)))
    THEN trim_end(SubSeq(s, 1, Len(s) - 1))
    ELSE s

\* str::trim
trim(s) == trim_end(trim_start(s))

(***************************************************************************)
(* clean_markdown (main.rs): a chain of regex replace_all calls.  Each     *)
(* pattern is matched as regex_lite matches it: leftmost first, the        *)
(* matches not overlapping, and `^` (no multi-line flag is set) only at    *)
(* the start of the text.  Match(k, s, i) is the index of the last         *)
(* character of pattern k's match starting at i, or 0.                     *)
(***************************************************************************)
MinOf(S) == CHOOSE x \in S : \A y \in S : x <= y

\* A TLA+ string cannot hold a grave accent: the tilde stands for it, in the
\* patterns and in the texts alike.
BackTick == "~"
Fence == BackTick \o BackTick \o BackTick

\* the first index >= from at which `sub` occurs in s, or 0
FirstAt(s, sub, from) ==
    LET S == {j \in from..(Len(s) - Len(sub) + 1) : SubSeq(s, j, j + Len(sub) - 1) = sub}
    IN  IF S = {} THEN 0 ELSE MinOf(S)

InClass(c, cls) ==
    CASE cls = "\\s" -> is_whitespace(c)
      [] cls = "\\d" -> is_ascii_digit(c)
      [] cls = "#" -> c = "#"
      [] cls = "\\n" -> c = "\n"
      [] cls = "[^*]" -> c # "*"

\* the last index of the longest run of characters of class cls that starts
\* at i (i - 1 when the run is empty)
RunEnd(s, i, cls) ==
    LET S == {j \in i..Len(s) : ~InClass(Ch(s, j), cls)}
    IN  IF S = {} THEN Len(s) ELSE MinOf(S) - 1

At(s, sub, i) ==
    /\ i >= 1 /\ i + Len(sub) - 1 <= Len(s)
    /\ SubSeq(s, i, i + Len(sub) - 1) = sub

\* \[([^\]]+)\]\([^)]+\) with the bracket at b; `least` is the least length of
\* the bracketed text
BracketParen(s, b, least) ==
    LET j == FirstAt(s, "]", b + 1)
        m == IF j = 0 THEN 0 ELSE FirstAt(s, ")", j + 2)
    IN  IF /\ At(s, "[", b) /\ j >= b + 1 + least
           /\ At(s, "(", j + 1) /\ m >= j + 3
        THEN m ELSE 0

\* \*{n}([^*]+)\*{n} at i, stars being n asterisks
Starred(s, i, stars) ==
    LET n == Len(stars)
        r == RunEnd(s, i + n, "[^*]")
    IN  IF At(s, stars, i) /\ r >= i + n /\ At(s, stars, r + 1)
        THEN r + n ELSE 0

Match(k, s, i) ==
    CASE k = "fence" ->
            LET j == FirstAt(s, Fence, i + 3)
            IN  IF At(s, Fence, i) /\ j # 0 THEN j + 2 ELSE 0
      [] k = "code" ->
            LET j == FirstAt(s, BackTick, i + 1)
            IN  IF At(s, BackTick, i) /\ j >= i + 2 THEN j ELSE 0
      [] k = "image" -> IF At(s, "!", i) THEN BracketParen(s, i + 1, 0) ELSE 0
      [] k = "link" -> BracketParen(s, i, 1)
      [] k = "header" ->
            LET h == RunEnd(s, 1, "#")
                w == RunEnd(s, h + 1, "\\s")
            IN  IF i = 1 /\ h >= 1 /\ h <= 6 /\ w > h THEN w ELSE 0
      [] k = "bold_italic" -> Starred(s, i, "***")
      [] k = "bold" -> Starred(s, i, "**")
      [] k = "italic" -> Starred(s, i, "*")
      [] k = "bullet" ->
            LET a == RunEnd(s, 1, "\\s")
                w == RunEnd(s, a + 2, "\\s")
            IN  IF i = 1 /\ Ch(s, a + 1) \in {"-", "*", "+"} /\ w > a + 1
                THEN w ELSE 0
      [] k = "numbered" ->
            LET a == RunEnd(s, 1, "\\s")
                d == RunEnd(s, a + 1, "\\d")
                w == RunEnd(s, d + 2, "\\s")
            IN  IF i = 1 /\ d > a /\ At(s, ".", d + 1) /\ w > d + 1
                THEN w ELSE 0
      [] k = "blank_lines" ->
            LET r == RunEnd(s, i, "\\n")
            IN  IF r >= i + 2 THEN r ELSE 0

\* what replaces the match of pattern k at i..e
Replacement(k, s, i, e) ==
    CASE k \in {"fence", "header", "bullet", "numbered"} -> ""
      [] k = "code" -> SubSeq(s, i + 1, e - 1)
      [] k = "image" -> SubSeq(s, i + 2, FirstAt(s, "]", i + 2) - 1)
      [] k = "link" -> SubSeq(s, i + 1, FirstAt(s, "]", i + 1) - 1)
      [] k = "bold_italic" -> SubSeq(s, i + 3, e - 3)
      [] k = "bold" -> SubSeq(s, i + 2, e - 2)
      [] k = "italic" -> SubSeq(s, i + 1, e - 1)
      [] k = "blank_lines" -> "\n\n"

\* Regex::replace_all from index i on
RECURSIVE replace_from(_, _, _)
replace_from(k, s, i) ==
    IF i > Len(s) THEN ""
    ELSE LET e == Match(k, s, i)
         IN  IF e # 0
             THEN Replacement(k, s, i, e) \o replace_from(k, s, e + 1)
             ELSE Ch(s, i) \o replace_from(k, s, i + 1)

replace_all(k, s) == replace_from(k, s, 1)

MarkdownSteps ==
    <<"fence", "code", "image", "link", "header", "bold_italic", "bold",
      "italic", "bullet", "numbered", "blank_lines">>

RECURSIVE clean_steps(_, _)
clean_steps(s, n) ==
    IF n = 0 THEN s ELSE replace_all(MarkdownSteps[n], clean_steps(s, n - 1))

clean_markdown(text) == trim(clean_steps(text, Len(MarkdownSteps)))

(***************************************************************************)
(* The voice catalog (voice.rs).                                           *)
(***************************************************************************)
VOICE_CATALOG == <<
    [id |-> "melo", name |-> "MeloTTS", lang |-> "zh_en", model_dir |-> "vits-melo-tts-zh_en"],
    [id |-> "huayan", name |-> "Huayan", lang |-> "zh_CN", model_dir |-> "vits-piper-zh_CN-huayan-medium"],
    [id |-> "aishell3", name |-> "AIShell3", lang |-> "zh_CN", model_dir |-> "vits-zh-aishell3"],
    [id |-> "kss", name |-> "KSS", lang |-> "ko_KR", model_dir |-> "vits-mimic3-ko_KO-kss_low"],
    [id |-> "amy", name |-> "Amy", lang |-> "en_US", model_dir |-> "vits-piper-en_US-amy-medium"],
    [id |-> "lessac", name |-> "Lessac", lang |-> "en_US", model_dir |-> "vits-piper-en_US-lessac-high"],
    [id |-> "ryan", name |-> "Ryan", lang |-> "en_US", model_dir |-> "vits-piper-en_US-ryan-high"],
    [id |-> "joe", name |-> "Joe", lang |-> "en_US", model_dir |-> "vits-piper-en_US-joe-medium"],
    [id |-> "ljspeech", name |-> "LJSpeech", lang |-> "en_US", model_dir |-> "vits-ljs"],
    [id |-> "alan", name |-> "Alan", lang |-> "en_GB", model_dir |-> "vits-piper-en_GB-alan-medium"],
    [id |-> "alba", name |-> "Alba", lang |-> "en_GB", model_dir |-> "vits-piper-en_GB-alba-medium"],
    [id |-> "thorsten", name |-> "Thorsten", lang |-> "de_DE", model_dir |-> "vits-piper-de_DE-thorsten-high"],
    [id |-> "siwis", name |-> "Siwis", lang |-> "fr_FR", model_dir |-> "vits-piper-fr_FR-siwis-medium"],
    [id |-> "davefx", name |-> "DaveFX", lang |-> "es_ES", model_dir |-> "vits-piper-es_ES-davefx-medium"],
    [id |-> "irina", name |-> "Irina", lang |-> "ru_RU", model_dir |-> "vits-piper-ru_RU-irina-medium"],
    [id |-> "ruslan", name |-> "Ruslan", lang |-> "ru_RU", model_dir |-> "vits-piper-ru_RU-ruslan-medium"],
    [id |-> "vais", name |-> "VAIS1000", lang |-> "vi_VN", model_dir |-> "vits-mimic3-vi_VN-vais1000_low"]
>>

Voices == 1..Len(VOICE_CATALOG)

\* VoiceCatalog::find: the first voice whose id equals `id` ignoring ASCII
\* case, as an index of the catalog; 0 is None.
find(id) ==
    LET hits == {v \in Voices : eq_ignore_ascii_case(VOICE_CATALOG[v].id, id)}
    IN  IF hits = {} THEN 0 ELSE CHOOSE v \in hits : \A w \in hits : v <= w

(***************************************************************************)
(* Paths.  `models_dir` is <data dir>/bibo/models.                         *)
(***************************************************************************)
models_dir == <<"models_dir", "">>

\* Voice::model_dir_path: models_dir/<model_dir>
model_dir_path(v) == <<"dir", VOICE_CATALOG[v].model_dir>>

\* the file model.onnx of the directory named `d` of models_dir
DirModel(d) == <<"dir_model", d>>

\* Voice::model_path: models_dir/<model_dir>/model.onnx
model_path(v) == DirModel(VOICE_CATALOG[v].model_dir)

\* download_from_source's `dest`: models_dir/<last segment of hf_path><ext>,
\* a file directly in models_dir; ext 1 is ".onnx", ext 2 is ".onnx.json"
Exts == <<"onnx", "onnx_json">>
dest(v, e) == <<Exts[e], VOICE_CATALOG[v].id>>

\* Voice::model_filename (its body is not in the sources): the model file of
\* the voice's file pair in models_dir
model_filename(v) == dest(v, 1)

exists(fs, p) == p \in fs

(***************************************************************************)
(* Installed checks (voice.rs) and engine resolution (engine.rs).  They    *)
(* only read the file system: each is an operator of the files that exist, *)
(* giving its result and the file system accesses it makes, in order.      *)
(***************************************************************************)
\* VoiceCatalog::installed: the names of the directories of models_dir that
\* hold a model.onnx
installed(fs) ==
    IF ~exists(fs, models_dir) THEN {}
    ELSE {p[2] : p \in {q \in fs : q[1] = "dir" /\ exists(fs, DirModel(q[2]))}}

installed_acc(fs) ==
    IF ~exists(fs, models_dir) THEN <<<<"exists", models_dir>>>>
    ELSE <<<<"exists", models_dir>>, <<"read_dir", models_dir>>>>

\* VoiceCatalog::is_installed
is_installed(fs, id) ==
    LET v == find(id)
    IN  IF v # 0
        THEN [ret |-> exists(fs, model_path(v)),
              acc |-> <<<<"exists", model_path(v)>>>>]
        ELSE [ret |-> \E d \in installed(fs) :
                          contains(to_lowercase(d), to_lowercase(id)),
              acc |-> installed_acc(fs)]

\* TtsEngine::new: Ok, or the error it returns
TtsEngine_new(fs, voice_id) ==
    LET v == find(voice_id)
    IN  IF v = 0
        THEN [ret |-> <<"Err", "VoiceNotFound", voice_id>>, acc |-> <<>>]
        ELSE IF ~exists(fs, model_dir_path(v))
        THEN [ret |-> <<"Err", "VoiceNotInstalled", voice_id>>,
              acc |-> <<<<"exists", model_dir_path(v)>>>>]
        ELSE IF ~exists(fs, model_path(v))
        THEN [ret |-> <<"Err", "ConfigError", voice_id>>,
              acc |-> <<<<"exists", model_dir_path(v)>>, <<"exists", model_path(v)>>>>]
        ELSE [ret |-> <<"Ok", "engine", voice_id>>,
              acc |-> <<<<"exists", model_dir_path(v)>>, <<"exists", model_path(v)>>>>]

(***************************************************************************)
(* VoiceDownloader::download_voice (download/mod.rs), as the steps of the  *)
(* thread p that runs it.  fr[p] holds the call's locals: the identifier,  *)
(* the quiet flag, the voice found (a catalog index), the source and the   *)
(* extension being downloaded, who called, and the files that existed when *)
(* the call began.                                                         *)
(***************************************************************************)
DOWNLOAD_SOURCES == <<"huggingface", "hf_mirror">>

Procs == {1, 2}

NoFrame == [id |-> "", quiet |-> FALSE, v |-> 0, src |-> 0, ext |-> 0,
            caller |-> "none", pre |-> {}, prev |-> <<"none">>]
NoRet == <<"none">>

Emit(evs) == log' = log \o evs
Say(quiet, what) == IF quiet THEN <<>> ELSE <<<<"print", what>>>>

\* the call returns `r` to its caller
Return(p, r) ==
    /\ ret' = [ret EXCEPT ![p] = r]
    /\ pc' = [pc EXCEPT ![p] = "dv_ret"]

\* dv_find with an unknown identifier falling back to the first voice
dv_find_default(p) ==
    /\ pc[p] = "dv_find"
    /\ fr' = [fr EXCEPT ![p].v = IF find(fr[p].id) = 0 THEN 1 ELSE find(fr[p].id)]
    /\ pc' = [pc EXCEPT ![p] = "dv_mkdir"]
    /\ UNCHANGED <<files, torn, ret, log, sh, cli, mn, calls>>

\* lines 72-73: resolve the identifier
dv_find(p) ==
    /\ pc[p] = "dv_find"
    /\ LET v == find(fr[p].id)
       IN  IF v = 0
           THEN /\ Return(p, <<"Err", "VoiceNotFound", fr[p].id>>)
                /\ UNCHANGED fr
           ELSE /\ fr' = [fr EXCEPT ![p].v = v]
                /\ pc' = [pc EXCEPT ![p] = "dv_mkdir"]
                /\ UNCHANGED ret
    /\ UNCHANGED <<files, torn, log, sh, cli, mn, calls>>

\* lines 75-78: create_dir_all(models_dir), which may fail
dv_mkdir(p) ==
    /\ pc[p] = "dv_mkdir"
    /\ \/ /\ files' = files \cup {models_dir}
          /\ Emit(<<<<"mkdir", models_dir>>>>)
          /\ pc' = [pc EXCEPT ![p] = "dv_check"]
          /\ UNCHANGED ret
       \/ /\ ~exists(files, models_dir)
          /\ Emit(<<<<"mkdir", models_dir>>>>)
          /\ Return(p, <<"Err", "Other", "Failed to create models dir">>)
          /\ UNCHANGED files
    /\ UNCHANGED <<torn, fr, sh, cli, mn, calls>>

\* AlreadyInstalled looking at the config file instead of the model file
AlreadyInstalled_config(fs, v) == exists(fs, dest(v, 2))

\* AlreadyInstalled that takes a file being written as not there
AlreadyInstalled_complete(fs, v) ==
    exists(fs, model_filename(v)) /\ model_filename(v) \notin torn

\* lines 80-104: the voice's model file exists already
AlreadyInstalled(fs, v) == exists(fs, model_filename(v))

dv_check(p) ==
    /\ pc[p] = "dv_check"
    /\ LET v == fr[p].v
           q == fr[p].quiet
       IN  IF AlreadyInstalled(files, v)
           THEN /\ Emit(<<<<"exists", model_filename(v)>>>>
                        \o Say(q, "already installed"))
                /\ Return(p, <<"Ok", "true", "">>)
                /\ UNCHANGED fr
           ELSE /\ Emit(<<<<"exists", model_filename(v)>>>>
                        \o Say(q, "Downloading"))
                /\ fr' = [fr EXCEPT ![p].src = 1]
                /\ pc' = [pc EXCEPT ![p] = "dv_source"]
                /\ UNCHANGED ret
    /\ UNCHANGED <<files, torn, sh, cli, mn, calls>>

\* lines 107-112 and 128: the next source, or the error when none is left
dv_source(p) ==
    /\ pc[p] = "dv_source"
    /\ IF fr[p].src <= Len(DOWNLOAD_SOURCES)
       THEN /\ Emit(Say(fr[p].quiet, "Source"))
            /\ fr' = [fr EXCEPT ![p].ext = 1]
            /\ pc' = [pc EXCEPT ![p] = "df_send"]
            /\ UNCHANGED ret
       ELSE /\ Return(p, <<"Err", "DownloadFailed", VOICE_CATALOG[fr[p].v].name>>)
            /\ UNCHANGED <<fr, log>>
    /\ UNCHANGED <<files, torn, sh, cli, mn, calls>>

\* download_file, lines 170-183: the GET request; a network error or a
\* non-success status fails the file
df_send(p) ==
    /\ pc[p] = "df_send"
    /\ Emit(<<<<"http", DOWNLOAD_SOURCES[fr[p].src], Exts[fr[p].ext], fr[p].v>>>>)
    /\ \E outcome \in {"success", "send error", "HTTP status"} :
          pc' = [pc EXCEPT ![p] = IF outcome = "success" THEN "df_create"
                                  ELSE "dfs_failed"]
    /\ UNCHANGED <<files, torn, fr, ret, sh, cli, mn, calls>>

\* download_file, lines 202-204: File::create(dest) truncates or creates
df_create(p) ==
    /\ pc[p] = "df_create"
    /\ LET d == dest(fr[p].v, fr[p].ext)
       IN  \/ /\ files' = files \cup {d}
              /\ torn' = torn \cup {d}
              /\ Emit(<<<<"create", d>>>>)
              /\ pc' = [pc EXCEPT ![p] = "df_stream"]
           \/ /\ pc' = [pc EXCEPT ![p] = "dfs_failed"]
              /\ UNCHANGED <<files, torn, log>>
    /\ UNCHANGED <<fr, ret, sh, cli, mn, calls>>

\* download_from_source, lines 149-153 and 165: the file is complete; the next
\* extension, or true when both are done (download_voice lines 114-118)
FileDone(p) ==
    IF fr[p].ext < Len(Exts)
    THEN /\ fr' = [fr EXCEPT ![p].ext = fr[p].ext + 1]
         /\ pc' = [pc EXCEPT ![p] = "df_send"]
         /\ UNCHANGED <<ret, log>>
    ELSE /\ Emit(Say(fr[p].quiet, "installed successfully"))
         /\ Return(p, <<"Ok", "true", "">>)
         /\ UNCHANGED fr

\* download_file, lines 206-226: the body is streamed into the file; a stream
\* error or a write error fails the file, which stays as far as written
df_stream(p) ==
    /\ pc[p] = "df_stream"
    /\ LET d == dest(fr[p].v, fr[p].ext)
       IN  \/ /\ torn' = torn \ {d}
              /\ FileDone(p)
           \/ /\ \E outcome \in {"Stream error", "Write error"} :
                    pc' = [pc EXCEPT ![p] = "dfs_failed"]
              /\ UNCHANGED <<torn, fr, ret, log>>
    /\ UNCHANGED <<files, sh, cli, mn, calls>>

\* dfs_failed giving up at the first source that fails
dfs_failed_no_fallback(p) ==
    /\ pc[p] = "dfs_failed"
    /\ files' = files \ {dest(fr[p].v, fr[p].ext)}
    /\ torn' = torn \ {dest(fr[p].v, fr[p].ext)}
    /\ Emit(<<<<"remove", dest(fr[p].v, fr[p].ext)>>>>)
    /\ fr' = [fr EXCEPT ![p].src = Len(DOWNLOAD_SOURCES) + 1]
    /\ pc' = [pc EXCEPT ![p] = "dv_source"]
    /\ UNCHANGED <<ret, sh, cli, mn, calls>>

\* download_from_source, lines 154-161: remove_file(dest), its result ignored,
\* and false; download_voice lines 119-126 then goes on to the next source.
\* Removing a file that exists succeeds.
CleanUp(fs, p) == fs \ {dest(fr[p].v, fr[p].ext)}

\* dfs_failed that goes on to the config file of a source whose model file
\* failed
dfs_failed_then_config(p) ==
    /\ pc[p] = "dfs_failed"
    /\ files' = CleanUp(files, p)
    /\ torn' = CleanUp(torn, p)
    /\ Emit(<<<<"remove", dest(fr[p].v, fr[p].ext)>>>>
            \o Say(fr[p].quiet, "failed, trying next"))
    /\ IF fr[p].ext = 1
       THEN /\ fr' = [fr EXCEPT ![p].ext = 2]
            /\ pc' = [pc EXCEPT ![p] = "df_send"]
       ELSE /\ fr' = [fr EXCEPT ![p].src = fr[p].src + 1]
            /\ pc' = [pc EXCEPT ![p] = "dv_source"]
    /\ UNCHANGED <<ret, sh, cli, mn, calls>>

dfs_failed(p) ==
    /\ pc[p] = "dfs_failed"
    /\ files' = CleanUp(files, p)
    /\ torn' = CleanUp(torn, p)
    /\ Emit(<<<<"remove", dest(fr[p].v, fr[p].ext)>>>>
            \o Say(fr[p].quiet, "failed, trying next"))
    /\ fr' = [fr EXCEPT ![p].src = fr[p].src + 1]
    /\ pc' = [pc EXCEPT ![p] = "dv_source"]
    /\ UNCHANGED <<ret, sh, cli, mn, calls>>

download_voice(p) ==
    \/ dv_find(p)
    \/ dv_mkdir(p)
    \/ dv_check(p)
    \/ dv_source(p)
    \/ df_send(p)
    \/ df_create(p)
    \/ df_stream(p)
    \/ dfs_failed(p)

(***************************************************************************)
(* SherpaDownloader::download (download/sherpa.rs).  sh holds its locals:  *)
(* the position, the quiet flag, the value returned, and whether the       *)
(* archive was downloaded completely in this call.                         *)
(***************************************************************************)
\* sherpa_bin_dir(): <data dir>/bibo/sherpa
sherpa_bin_dir == <<"sherpa_dir", "">>
\* sherpa_tts_path(): <bin dir>/bin/sherpa-onnx-offline-tts
sherpa_tts_path == <<"sherpa_tts", "">>
\* line 44: <bin dir>/sherpa_temp.tar.bz2
temp_tar == <<"sherpa_temp", "">>
\* what else the archive holds (libraries, other binaries)
sherpa_other == <<"sherpa_other", "">>

\* the standard error text of tar
TarStderr == {"", "tar: Unexpected EOF in archive"}

ShReturn(r) == sh' = [sh EXCEPT !.pc = "sd_ret", !.ret = r]
ShGoto(l) == sh' = [sh EXCEPT !.pc = l]

\* lines 20-36: the binary exists already
sd_check ==
    /\ sh.pc = "sd_check"
    /\ IF exists(files, sherpa_tts_path)
       THEN /\ ShReturn(<<"Ok", "", "">>)
            /\ Emit(<<<<"exists", sherpa_tts_path>>>> \o Say(sh.quiet, "already installed"))
       ELSE /\ ShGoto("sd_mkdir")
            /\ Emit(<<<<"exists", sherpa_tts_path>>>> \o Say(sh.quiet, "Downloading"))
    /\ UNCHANGED <<files, torn, pc, fr, ret, cli, mn, calls>>

\* lines 38-41: create_dir_all(bin_dir), which may fail
sd_mkdir ==
    /\ sh.pc = "sd_mkdir"
    /\ Emit(<<<<"mkdir", sherpa_bin_dir>>>>)
    /\ \/ /\ files' = files \cup {sherpa_bin_dir}
          /\ ShGoto("sd_send")
       \/ /\ ~exists(files, sherpa_bin_dir)
          /\ ShReturn(<<"Err", "Other", "Failed to create bin dir">>)
          /\ UNCHANGED files
    /\ UNCHANGED <<torn, pc, fr, ret, cli, mn, calls>>

\* download_file, lines 85-98: the GET request; line 45 returns its error
sd_send ==
    /\ sh.pc = "sd_send"
    /\ Emit(<<<<"http", "github", "tar_bz2", 0>>>>)
    /\ \E outcome \in {"success", "send error", "HTTP status"} :
          IF outcome = "success" THEN ShGoto("sd_create")
          ELSE ShReturn(<<"Err", "DownloadFailed", outcome>>)
    /\ UNCHANGED <<files, torn, pc, fr, ret, cli, mn, calls>>

\* download_file, lines 117-119: File::create(temp_tar)
sd_create ==
    /\ sh.pc = "sd_create"
    /\ \/ /\ files' = files \cup {temp_tar}
          /\ torn' = torn \cup {temp_tar}
          /\ Emit(<<<<"create", temp_tar>>>>)
          /\ ShGoto("sd_stream")
       \/ /\ ShReturn(<<"Err", "DownloadFailed", "Failed to create file">>)
          /\ UNCHANGED <<files, torn, log>>
    /\ UNCHANGED <<pc, fr, ret, cli, mn, calls>>

\* download_file, lines 121-141: the body is streamed into the archive
sd_stream ==
    /\ sh.pc = "sd_stream"
    /\ \/ /\ torn' = torn \ {temp_tar}
          /\ sh' = [sh EXCEPT !.pc = "sd_extract", !.downloaded = TRUE]
          /\ Emit(Say(sh.quiet, "Extracting"))
       \/ /\ \E outcome \in {"Stream error", "Write error"} :
                ShReturn(<<"Err", "DownloadFailed", outcome>>)
          /\ UNCHANGED <<torn, log>>
    /\ UNCHANGED <<files, pc, fr, ret, cli, mn, calls>>

\* extract_tar_bz2, lines 150-165: tar -xjf temp_tar -C bin_dir.  tar may not
\* start, or exit non-zero having unpacked some of the archive, or exit zero
\* having unpacked what the archive holds, which may lack the binary.
sd_extract ==
    /\ sh.pc = "sd_extract"
    /\ \/ /\ ShReturn(<<"Err", "Other", "Failed to run tar">>)
          /\ Emit(<<<<"spawn", "tar">>>>)
          /\ UNCHANGED files
       \/ /\ \E unpacked \in SUBSET {sherpa_tts_path, sherpa_other}, stderr \in TarStderr :
                /\ files' = files \cup unpacked
                /\ Emit(<<<<"spawn", "tar">>, <<"tar_exit", "non-zero", stderr>>>>)
                /\ ShReturn(<<"Err", "Other", "tar extraction failed: " \o stderr>>)
       \/ /\ \E unpacked \in {{sherpa_tts_path, sherpa_other}, {sherpa_other}} :
                files' = files \cup unpacked
          /\ Emit(<<<<"spawn", "tar">>, <<"tar_exit", "zero", "">>>>)
          /\ ShGoto("sd_verify")
    /\ UNCHANGED <<torn, pc, fr, ret, cli, mn, calls>>

\* sd_verify that takes the exit status of tar for the extraction
sd_verify_unchecked ==
    /\ sh.pc = "sd_verify"
    /\ Emit(<<<<"exists", sherpa_tts_path>>>>)
    /\ ShGoto("sd_cleanup")
    /\ UNCHANGED <<files, torn, pc, fr, ret, cli, mn, calls>>

\* extract_tar_bz2, lines 167-175: the binary must exist after extraction
sd_verify ==
    /\ sh.pc = "sd_verify"
    /\ Emit(<<<<"exists", sherpa_tts_path>>>>)
    /\ IF ~exists(files, sherpa_tts_path)
       THEN ShReturn(<<"Err", "Other",
                       "sherpa-onnx-offline-tts binary not found in extracted archive">>)
       ELSE ShGoto("sd_cleanup")
    /\ UNCHANGED <<files, torn, pc, fr, ret, cli, mn, calls>>

\* lines 54-80: remove_file(temp_tar), its result ignored; the binaries are
\* made executable; Ok
sd_cleanup ==
    /\ sh.pc = "sd_cleanup"
    /\ files' = files \ {temp_tar}
    /\ torn' = torn \ {temp_tar}
    /\ Emit(<<<<"remove", temp_tar>>, <<"chmod", sherpa_tts_path>>>>
            \o Say(sh.quiet, "installed successfully"))
    /\ ShReturn(<<"Ok", "", "">>)
    /\ UNCHANGED <<pc, fr, ret, cli, mn, calls>>

sherpa_download ==
    \/ sd_check
    \/ sd_mkdir
    \/ sd_send
    \/ sd_create
    \/ sd_stream
    \/ sd_extract
    \/ sd_verify
    \/ sd_cleanup

(***************************************************************************)
(* The command line (cli.rs).  An Option is a sequence of at most one      *)
(* element.  A length scale is kept in hundredths: the f32 literals 1.2,   *)
(* 1.0 and 0.8 reach the engine formatted with two decimals (engine.rs     *)
(* line 101).                                                              *)
(***************************************************************************)
None == <<>>
Some(x) == <<x>>
IsSome(o) == o # <<>>

Speeds == {"Slow", "Normal", "Fast"}

\* to_length_scale with the scales of slow and fast exchanged
to_length_scale_exchanged(speed) ==
    CASE speed = "Slow" -> 80
      [] speed = "Normal" -> 100
      [] speed = "Fast" -> 120

\* Speed::to_length_scale
to_length_scale(speed) ==
    CASE speed = "Slow" -> 120
      [] speed = "Normal" -> 100
      [] speed = "Fast" -> 80

\* effective_speed that takes no account of the fast flag
effective_speed_selected(c) == c.speed

\* Cli::effective_speed
effective_speed(c) == IF c.fast THEN "Fast" ELSE c.speed

\* TtsEngine::sample_rate, of the engine made for `voice_id`
sample_rate(voice_id) ==
    IF contains(to_lowercase(voice_id), "melo") THEN 44100 ELSE 22050

\* the command line with no argument and no environment variable set
DefaultCli ==
    [text |-> None, voice |-> "melo", speed |-> "Normal", fast |-> FALSE,
     input |-> None, output |-> None, quiet |-> FALSE, list |-> FALSE,
     download |-> None]

(***************************************************************************)
(* main (main.rs).  mn holds its locals: the position, the text, the       *)
(* resolved input (also when it was rejected), the speed and length scale, *)
(* the error shown, the exit status (-1 while running), and the locals of  *)
(* the calls in progress.                                                  *)
(***************************************************************************)
StartMain ==
    [pc |-> "m_download", text |-> "", resolved |-> None, speed |-> "",
     length_scale |-> 0, err |-> NoRet, exit |-> -1, out |-> <<>>, back |-> "",
     spec |-> "", queue |-> <<>>, success |-> 0, samples |-> None, raw |-> None]

\* e.show(); std::process::exit(1)
Fail(e) ==
    /\ mn' = [mn EXCEPT !.pc = "m_exit", !.err = e, !.exit = 1]
    /\ Emit(<<<<"show", e[2]>>, <<"exit", 1>>>>)

\* Path::extension, lowercased (read_file_content lines 95-99)
RECURSIVE LastDot(_, _)
LastDot(path, i) ==
    IF i = 0 THEN 0 ELSE IF Ch(path, i) = "." THEN i ELSE LastDot(path, i - 1)

extension(path) ==
    LET d == LastDot(path, Len(path))
    IN  IF d <= 1 THEN "" ELSE to_lowercase(SubSeq(path, d + 1, Len(path)))

\* the WAV file of synthesize: <temp file>.wav
wav_path == <<"tmp_wav", "">>
\* the file named by -o
output_file(path) == <<"output", path>>

\* m_download that gives way to the list flag
m_download_after_list ==
    /\ mn.pc = "m_download"
    /\ IF IsSome(cli.download) /\ ~cli.list
       THEN mn' = [mn EXCEPT !.pc = "bs_start", !.spec = cli.download[1]]
       ELSE mn' = [mn EXCEPT !.pc = "m_list"]
    /\ UNCHANGED <<files, torn, pc, fr, ret, log, sh, cli, calls>>

\* lines 139-148: download mode
m_download ==
    /\ mn.pc = "m_download"
    /\ IF IsSome(cli.download)
       THEN mn' = [mn EXCEPT !.pc = "bs_start", !.spec = cli.download[1]]
       ELSE mn' = [mn EXCEPT !.pc = "m_list"]
    /\ UNCHANGED <<files, torn, pc, fr, ret, log, sh, cli, calls>>

\* lines 150-169: list mode
m_list ==
    /\ mn.pc = "m_list"
    /\ IF cli.list
       THEN /\ mn' = [mn EXCEPT !.pc = "m_exit", !.exit = 0]
            /\ Emit(installed_acc(files)
                    \o <<<<"list", installed(files),
                          {d \in installed(files) :
                              contains(to_lowercase(d), to_lowercase(cli.voice))}>>,
                         <<"exit", 0>>>>)
       ELSE /\ mn' = [mn EXCEPT !.pc = "m_text"]
            /\ UNCHANGED log
    /\ UNCHANGED <<files, torn, pc, fr, ret, sh, cli, calls>>

\* the contents an input file may have
FileContents == {"hello", "", " \n", "# ", "# Title\n- item", Fence \o "x" \o Fence}

\* read_file_content lines 118-126: the text of the file, cleaned if markdown
cleaned(path, content) ==
    IF extension(path) \in {"md", "markdown"} THEN clean_markdown(content) ELSE content

\* read_file_content (lines 88-133) of a path that exists or not, holding
\* `content`, readable or not: Ok with the text, or the error
read_file_content(path, there, readable, content) ==
    LET ext == extension(path)
        text == cleaned(path, content)
    IN  IF ~there THEN <<"Err", "FileNotFound", path>>
        ELSE IF ext \notin {"md", "txt", "markdown"} THEN <<"Err", "UnsupportedFileType", ext>>
        ELSE IF ~readable THEN <<"Err", "FileNotFound", path>>
        ELSE IF trim(text) = "" THEN <<"Err", "EmptyFile", path>>
        ELSE <<"Ok", text, "">>

\* lines 171-185: the text, from the input file or from the argument
m_text ==
    /\ mn.pc = "m_text"
    /\ IF IsSome(cli.input)
       THEN \E there \in BOOLEAN, readable \in BOOLEAN, content \in FileContents :
               LET r == read_file_content(cli.input[1], there, readable, content)
                   seen == IF there /\ readable
                              /\ extension(cli.input[1]) \in {"md", "txt", "markdown"}
                           THEN Some(cleaned(cli.input[1], content))
                           ELSE None
                   raw == IF seen = None THEN None ELSE Some(content)
               IN  IF r[1] = "Ok"
                   THEN /\ mn' = [mn EXCEPT !.pc = "m_speed", !.text = r[2],
                                            !.resolved = seen, !.raw = raw]
                        /\ Emit(<<<<"read", cli.input[1]>>>>)
                   ELSE /\ mn' = [mn EXCEPT !.pc = "m_exit", !.err = r, !.exit = 1,
                                            !.resolved = seen, !.raw = raw]
                        /\ Emit(<<<<"read", cli.input[1]>>, <<"show", r[2]>>, <<"exit", 1>>>>)
       ELSE IF IsSome(cli.text)
       THEN /\ mn' = [mn EXCEPT !.pc = "m_speed", !.text = cli.text[1],
                                !.resolved = cli.text]
            /\ UNCHANGED log
       ELSE Fail(<<"Err", "NoTextProvided", "">>)
    /\ UNCHANGED <<files, torn, pc, fr, ret, sh, cli, calls>>

\* lines 187-189: the speed and its length scale
m_speed ==
    /\ mn.pc = "m_speed"
    /\ mn' = [mn EXCEPT !.pc = "m_engine",
                        !.speed = effective_speed(cli),
                        !.length_scale = to_length_scale(effective_speed(cli))]
    /\ UNCHANGED <<files, torn, pc, fr, ret, log, sh, cli, calls>>

\* lines 191-203: the engine of the voice
m_engine ==
    /\ mn.pc = "m_engine"
    /\ LET e == TtsEngine_new(files, cli.voice)
       IN  IF e.ret[1] = "Err"
           THEN /\ mn' = [mn EXCEPT !.pc = "m_exit", !.err = e.ret, !.exit = 1]
                /\ Emit(<<<<"TtsEngine::new", cli.voice>>>> \o e.acc
                        \o <<<<"show", e.ret[2]>>, <<"exit", 1>>>>)
           ELSE /\ mn' = [mn EXCEPT !.pc = "sy_temp"]
                /\ Emit(<<<<"TtsEngine::new", cli.voice>>>> \o e.acc)
    /\ UNCHANGED <<files, torn, pc, fr, ret, sh, cli, calls>>

\* TtsEngine::synthesize, lines 123-129: the temporary file, then
\* synthesize_to_file into <temporary file>.wav
sy_temp ==
    /\ mn.pc = "sy_temp"
    /\ \/ mn' = [mn EXCEPT !.pc = "stf_find", !.out = wav_path, !.back = "sy_read"]
       \/ mn' = [mn EXCEPT !.pc = "m_synth_done",
                           !.err = <<"Err", "Other", "Failed to create temp file">>]
    /\ UNCHANGED <<files, torn, pc, fr, ret, log, sh, cli, calls>>

\* where synthesize_to_file returns its error: to synthesize, which returns it
\* to main (line 129), or to main (line 211)
StfFail(e) ==
    IF mn.back = "sy_read"
    THEN /\ mn' = [mn EXCEPT !.pc = "m_synth_done", !.err = e]
         /\ UNCHANGED log
    ELSE Fail(e)

\* synthesize_to_file, line 95: find_sherpa_tts.  The binary of the user
\* directory is found; otherwise the environment variable, the bundled paths
\* and `which` find one or not.
stf_find ==
    /\ mn.pc = "stf_find"
    /\ \/ /\ mn' = [mn EXCEPT !.pc = "stf_run"]
          /\ UNCHANGED log
       \/ /\ ~exists(files, sherpa_tts_path)
          /\ StfFail(<<"Err", "SherpaNotFound", "">>)
    /\ UNCHANGED <<files, torn, pc, fr, ret, sh, cli, calls>>

\* the standard error text of the engine
EngineStderr == {"", "model load failed"}

\* stf_run that takes any exit status of the engine for success
stf_run_any_status ==
    /\ mn.pc = "stf_run"
    /\ \/ /\ StfFail(<<"Err", "SynthesisFailed", "Failed to run sherpa-onnx">>)
          /\ UNCHANGED <<files, torn>>
       \/ /\ \E written \in SUBSET {mn.out}, status \in {"zero", "non-zero"},
                stderr \in EngineStderr :
                /\ Emit(<<<<"spawn", "sherpa-onnx-offline-tts", mn.text, mn.length_scale,
                           mn.out>>,
                         <<"engine_exit", status, stderr, mn.out>>>>
                        \o IF status # "zero" /\ mn.back # "sy_read"
                           THEN <<<<"show", "SynthesisFailed">>, <<"exit", 1>>>>
                           ELSE <<>>)
                /\ files' = files \cup written
                /\ torn' = IF status = "zero" THEN torn \ written ELSE torn \cup written
                /\ IF status \in {"zero", "non-zero"}
                   THEN mn' = [mn EXCEPT !.pc = mn.back]
                   ELSE mn' = [mn EXCEPT
                            !.pc = IF mn.back = "sy_read" THEN "m_synth_done" ELSE "m_exit",
                            !.exit = IF mn.back = "sy_read" THEN mn.exit ELSE 1,
                            !.err = <<"Err", "SynthesisFailed", "sherpa-onnx error: " \o stderr>>]
    /\ UNCHANGED <<pc, fr, ret, sh, cli, calls>>

\* synthesize_to_file, lines 97-118: the engine is run with the text, the
\* length scale and the output file.  It may not start, or exit non-zero, or
\* exit zero; it writes the output file or not.
stf_run ==
    /\ mn.pc = "stf_run"
    /\ \/ /\ StfFail(<<"Err", "SynthesisFailed", "Failed to run sherpa-onnx">>)
          /\ UNCHANGED <<files, torn>>
       \/ /\ \E written \in SUBSET {mn.out}, status \in {"zero", "non-zero"},
                stderr \in EngineStderr :
                /\ Emit(<<<<"spawn", "sherpa-onnx-offline-tts", mn.text, mn.length_scale,
                           mn.out>>,
                         <<"engine_exit", status, stderr, mn.out>>>>
                        \o IF status # "zero" /\ mn.back # "sy_read"
                           THEN <<<<"show", "SynthesisFailed">>, <<"exit", 1>>>>
                           ELSE <<>>)
                /\ files' = files \cup written
                /\ torn' = IF status = "zero" THEN torn \ written ELSE torn \cup written
                /\ IF status = "zero"
                   THEN mn' = [mn EXCEPT !.pc = mn.back]
                   ELSE mn' = [mn EXCEPT
                            !.pc = IF mn.back = "sy_read" THEN "m_synth_done" ELSE "m_exit",
                            !.exit = IF mn.back = "sy_read" THEN mn.exit ELSE 1,
                            !.err = <<"Err", "SynthesisFailed", "sherpa-onnx error: " \o stderr>>]
    /\ UNCHANGED <<pc, fr, ret, sh, cli, calls>>

\* synthesize, lines 132-143: the samples are read from the WAV file, which
\* is then removed; a WAV file that cannot be read is the error, and stays
sy_read ==
    /\ mn.pc = "sy_read"
    /\ \/ /\ exists(files, wav_path) /\ wav_path \notin torn
          /\ mn' = [mn EXCEPT !.pc = "m_synth_done", !.samples = Some("pcm")]
          /\ files' = files \ {wav_path}
          /\ Emit(<<<<"remove", wav_path>>>>)
       \/ /\ mn' = [mn EXCEPT !.pc = "m_synth_done",
                              !.err = <<"Err", "Other", "Failed to read WAV">>]
          /\ UNCHANGED <<files, log>>
    /\ UNCHANGED <<torn, pc, fr, ret, sh, cli, calls>>

\* main, lines 206-233: the result of synthesize
m_synth_done ==
    /\ mn.pc = "m_synth_done"
    /\ IF mn.err # NoRet
       THEN Fail(mn.err)
       ELSE /\ UNCHANGED log
            /\ IF IsSome(cli.output)
               THEN mn' = [mn EXCEPT !.pc = "stf_find", !.out = output_file(cli.output[1]),
                                     !.back = "m_saved"]
               ELSE mn' = [mn EXCEPT !.pc = "m_play"]
    /\ UNCHANGED <<files, torn, pc, fr, ret, sh, cli, calls>>

\* lines 215-217: the file was saved
m_saved ==
    /\ mn.pc = "m_saved"
    /\ mn' = [mn EXCEPT !.pc = "m_exit", !.exit = 0]
    /\ Emit(Say(cli.quiet, "Saved") \o <<<<"exit", 0>>>>)
    /\ UNCHANGED <<files, torn, pc, fr, ret, sh, cli, calls>>

\* the rate main hands to play_samples (line 223)
PlaybackRate == 22050

\* lines 219-226: play_samples(samples, 22050), which plays or fails
m_play ==
    /\ mn.pc = "m_play"
    /\ \/ /\ mn' = [mn EXCEPT !.pc = "m_exit", !.exit = 0]
          /\ Emit(Say(cli.quiet, "Playing") \o
                  <<<<"play", PlaybackRate, cli.voice>>, <<"exit", 0>>>>)
       \/ /\ mn' = [mn EXCEPT !.pc = "m_exit", !.exit = 1,
                              !.err = <<"Err", "PlaybackFailed", "Failed to get audio output">>]
          /\ Emit(Say(cli.quiet, "Playing") \o
                  <<<<"show", "PlaybackFailed">>, <<"exit", 1>>>>)
    /\ UNCHANGED <<files, torn, pc, fr, ret, sh, cli, calls>>

(***************************************************************************)
(* VoiceDownloader::download_by_spec (download/mod.rs), called by main.    *)
(***************************************************************************)
\* str::split(',')
RECURSIVE split_from(_, _, _)
split_from(s, i, start) ==
    IF i > Len(s) THEN <<SubSeq(s, start, Len(s))>>
    ELSE IF Ch(s, i) = "," THEN <<SubSeq(s, start, i - 1)>> \o split_from(s, i + 1, i + 1)
    ELSE split_from(s, i + 1, start)

split(s) == split_from(s, 1, 1)

Digits == "0123456789"

\* the value of a decimal digit
DigitOf(c) == CHOOSE d \in 0..9 : Ch(Digits, d + 1) = c

RECURSIVE digits_value(_, _)
digits_value(s, acc) ==
    IF s = "" THEN acc ELSE digits_value(Tail(s), acc * 10 + DigitOf(Ch(s, 1)))

\* str::parse::<usize>: an optional '+', then one decimal digit or more;
\* -1 stands for Err
parse_usize(s) ==
    LET body == IF Ch(s, 1) = "+" THEN SubSeq(s, 2, Len(s)) ELSE s
    IN  IF body = "" \/ \E i \in 1..Len(body) : ~is_ascii_digit(Ch(body, i))
        THEN -1
        ELSE digits_value(body, 0)

\* lines 263-266: the numbers of the specification
indices(spec) ==
    LET parts == split(spec)
        nums == [i \in 1..Len(parts) |-> parse_usize(trim(parts[i]))]
    IN  SelectSeq(nums, LAMBDA n : n >= 0)

\* show_catalog (lines 29-68): the voices shown as installed
show_catalog(fs) ==
    {v \in Voices : \E d \in installed(fs) : contains(to_lowercase(d), VOICE_CATALOG[v].id)}

\* download_by_spec calls download_voice(id, quiet)
BsCall(id) ==
    /\ fr' = [fr EXCEPT ![1] = [id |-> id, quiet |-> cli.quiet, v |-> 0, src |-> 0,
                                ext |-> 0, caller |-> "by_spec", pre |-> files,
                                prev |-> <<"none">>]]
    /\ pc' = [pc EXCEPT ![1] = "dv_find"]
    /\ ret' = [ret EXCEPT ![1] = NoRet]
    /\ Emit(<<<<"download_voice", id>>>>)

\* lines 231-288: the form of the specification
bs_start ==
    /\ mn.pc = "bs_start"
    /\ LET spec == to_lowercase(mn.spec)
           numeric == contains(spec, ",") \/ \A i \in 1..Len(spec) : is_ascii_digit(Ch(spec, i))
       IN  IF spec = "list"
           THEN /\ mn' = [mn EXCEPT !.pc = "m_exit", !.exit = 0]
                /\ Emit(installed_acc(files) \o
                        <<<<"catalog", show_catalog(files)>>, <<"by_spec", "Ok", 0>>,
                          <<"exit", 0>>>>)
                /\ UNCHANGED <<pc, fr, ret>>
           ELSE IF spec = "all"
           THEN /\ mn' = [mn EXCEPT !.pc = "bs_next", !.spec = spec,
                                    !.queue = [i \in 1..Len(VOICE_CATALOG) |-> i]]
                /\ Emit(Say(cli.quiet, "Downloading all voices"))
                /\ UNCHANGED <<pc, fr, ret>>
           ELSE IF numeric
           THEN /\ mn' = [mn EXCEPT !.pc = "bs_next", !.spec = spec, !.queue = indices(spec)]
                /\ UNCHANGED <<pc, fr, ret, log>>
           ELSE /\ mn' = [mn EXCEPT !.pc = "bs_single", !.spec = spec]
                /\ BsCall(spec)
    /\ UNCHANGED <<files, torn, sh, cli, calls>>

\* bs_next that does not await the call it makes
bs_next_no_await ==
    /\ mn.pc = "bs_next"
    /\ IF mn.queue = <<>>
       THEN /\ mn' = [mn EXCEPT !.pc = "m_exit", !.exit = 0]
            /\ Emit(<<<<"by_spec", "Ok", mn.success>>, <<"exit", 0>>>>)
            /\ UNCHANGED <<pc, fr, ret>>
       ELSE /\ mn' = [mn EXCEPT !.queue = Tail(mn.queue)]
            /\ IF Head(mn.queue) >= 1 /\ Head(mn.queue) <= Len(VOICE_CATALOG)
               THEN BsCall(VOICE_CATALOG[Head(mn.queue)].id)
               ELSE /\ Emit(Say(cli.quiet, "Invalid number"))
                    /\ UNCHANGED <<pc, fr, ret>>
    /\ UNCHANGED <<files, torn, sh, cli, calls>>

\* bs_next that ends the batch at an index out of range
bs_next_abort ==
    /\ mn.pc = "bs_next"
    /\ IF mn.queue = <<>> \/ ~(Head(mn.queue) >= 1 /\ Head(mn.queue) <= Len(VOICE_CATALOG))
       THEN /\ mn' = [mn EXCEPT !.pc = "m_exit", !.exit = 0]
            /\ Emit(<<<<"by_spec", "Ok", mn.success>>, <<"exit", 0>>>>)
            /\ UNCHANGED <<pc, fr, ret>>
       ELSE /\ mn' = [mn EXCEPT !.pc = "bs_wait"]
            /\ BsCall(VOICE_CATALOG[Head(mn.queue)].id)
    /\ UNCHANGED <<files, torn, sh, cli, calls>>

\* lines 245-249 and 269-283: the next voice of the loop, or its end
bs_next ==
    /\ mn.pc = "bs_next"
    /\ IF mn.queue = <<>>
       THEN /\ mn' = [mn EXCEPT !.pc = "m_exit", !.exit = 0]
            /\ Emit((IF mn.spec = "all" THEN Say(cli.quiet, "Downloaded") ELSE <<>>)
                    \o <<<<"by_spec", "Ok", mn.success>>, <<"exit", 0>>>>)
            /\ UNCHANGED <<pc, fr, ret>>
       ELSE LET idx == Head(mn.queue)
            IN  IF idx >= 1 /\ idx <= Len(VOICE_CATALOG)
                THEN /\ mn' = [mn EXCEPT !.pc = "bs_wait"]
                     /\ BsCall(VOICE_CATALOG[idx].id)
                ELSE /\ mn' = [mn EXCEPT !.queue = Tail(mn.queue)]
                     /\ Emit(Say(cli.quiet, "Invalid number"))
                     /\ UNCHANGED <<pc, fr, ret>>
    /\ UNCHANGED <<files, torn, sh, cli, calls>>

\* lines 246-248 and 272-274: download_voice returned; Ok is counted
bs_wait ==
    /\ mn.pc = "bs_wait"
    /\ pc[1] = "dv_ret"
    /\ mn' = [mn EXCEPT !.pc = "bs_next", !.queue = Tail(mn.queue),
                        !.success = IF ret[1][1] = "Ok" THEN mn.success + 1 ELSE mn.success]
    /\ pc' = [pc EXCEPT ![1] = "idle"]
    /\ fr' = [fr EXCEPT ![1] = NoFrame]
    /\ ret' = [ret EXCEPT ![1] = NoRet]
    /\ Emit(<<<<"download_voice_ret", ret[1][1], ret[1][2]>>>>)
    /\ UNCHANGED <<files, torn, sh, cli, calls>>

\* line 288 and main lines 141-147: the one voice's result is the result
bs_single ==
    /\ mn.pc = "bs_single"
    /\ pc[1] = "dv_ret"
    /\ IF ret[1][1] = "Ok"
       THEN /\ mn' = [mn EXCEPT !.pc = "m_exit", !.exit = 0, !.success = 1]
            /\ Emit(<<<<"by_spec", "Ok", 1>>, <<"exit", 0>>>>)
       ELSE /\ mn' = [mn EXCEPT !.pc = "m_exit", !.exit = 1, !.err = ret[1]]
            /\ Emit(<<<<"by_spec", "Err", ret[1][2]>>, <<"show", ret[1][2]>>, <<"exit", 1>>>>)
    /\ pc' = [pc EXCEPT ![1] = "idle"]
    /\ fr' = [fr EXCEPT ![1] = NoFrame]
    /\ UNCHANGED <<files, torn, ret, sh, cli, calls>>

download_by_spec == bs_start \/ bs_next \/ bs_wait \/ bs_single

synthesize_to_file == stf_find \/ stf_run

synthesize == sy_temp \/ sy_read

main ==
    \/ m_download \/ m_list \/ m_text \/ m_speed \/ m_engine
    \/ m_synth_done \/ m_saved \/ m_play

(***************************************************************************)
(* SpecVoice: a caller that makes up to MaxCalls calls of download_voice,  *)
(* one after the other, on a models directory that holds up to MaxEntries  *)
(* entries when it starts.                                                 *)
(***************************************************************************)
MaxCalls == 2
MaxEntries == 2

\* the identifiers the caller passes: catalog ids in either case, and
\* identifiers that are no catalog id
CallIds == {"amy", "AMY", "melo", "piper"}

\* the entries a models directory may hold at the start
InitVoices == {find("amy"), find("melo")}
InitPaths ==
    UNION {{dest(v, 1), dest(v, 2), model_dir_path(v), model_path(v)} : v \in InitVoices}

IsFile(p) == p[1] # "dir" /\ p[1] # "models_dir"

\* a directory's model.onnx exists only in a directory that exists
WellFormedFs(fs) ==
    /\ \A p \in fs : p[1] = "dir_model" => <<"dir", p[2]>> \in fs
    /\ (fs \ {models_dir}) # {} => models_dir \in fs

InitFs ==
    {fs \in SUBSET (InitPaths \cup {models_dir}) :
        /\ Cardinality(fs \ {models_dir}) <= MaxEntries
        /\ WellFormedFs(fs)}

NoSh == [pc |-> "idle", quiet |-> FALSE, ret |-> NoRet, downloaded |-> FALSE]
NoCli == [set |-> FALSE]
NoMain == [pc |-> "idle"]

InitVoice ==
    /\ files \in InitFs
    /\ torn \in SUBSET {p \in files : p[1] \in {"onnx", "onnx_json"}}
    /\ pc = [p \in Procs |-> "idle"]
    /\ fr = [p \in Procs |-> NoFrame]
    /\ ret = [p \in Procs |-> NoRet]
    /\ log = <<>>
    /\ sh = NoSh
    /\ cli = NoCli
    /\ mn = NoMain
    /\ calls = 0

HasHttp(l) == \E i \in 1..Len(l) : l[i][1] = "http"

\* the caller calls download_voice(voice_id, quiet)
Call(p) ==
    /\ pc[p] \in {"idle", "dv_ret"}
    /\ calls < MaxCalls
    /\ \E id \in CallIds, quiet \in BOOLEAN :
          fr' = [fr EXCEPT ![p] =
                    [id |-> id, quiet |-> quiet, v |-> 0, src |-> 0, ext |-> 0,
                     caller |-> "api", pre |-> files,
                     prev |-> IF pc[p] = "idle" THEN <<"none">>
                              ELSE <<fr[p].id, ret[p][1], HasHttp(log)>>]]
    /\ pc' = [pc EXCEPT ![p] = "dv_find"]
    /\ ret' = [ret EXCEPT ![p] = NoRet]
    /\ log' = <<>>
    /\ calls' = calls + 1
    /\ UNCHANGED <<files, torn, sh, cli, mn>>

NextVoice == Call(1) \/ download_voice(1)

SpecVoice == InitVoice /\ [][NextVoice]_vars

\* SpecVoice where the call in progress keeps being run: the task is
\* scheduled and each of its HTTP transfers ends
SpecVoiceFair == SpecVoice /\ WF_vars(download_voice(1))

(***************************************************************************)
(* SpecSherpa: a caller that makes up to MaxCalls calls of                 *)
(* SherpaDownloader::download, on any content of the engine directory.     *)
(***************************************************************************)
InitSherpaFs ==
    {fs \in SUBSET {sherpa_bin_dir, sherpa_tts_path, sherpa_other, temp_tar} :
        fs # {} => sherpa_bin_dir \in fs}

InitSherpa ==
    /\ files \in InitSherpaFs
    /\ torn \in SUBSET (files \cap {temp_tar})
    /\ pc = [p \in Procs |-> "idle"]
    /\ fr = [p \in Procs |-> NoFrame]
    /\ ret = [p \in Procs |-> NoRet]
    /\ log = <<>>
    /\ sh = NoSh
    /\ cli = NoCli
    /\ mn = NoMain
    /\ calls = 0

\* the caller calls SherpaDownloader::download(quiet)
CallSherpa ==
    /\ sh.pc \in {"idle", "sd_ret"}
    /\ calls < MaxCalls
    /\ \E quiet \in BOOLEAN :
          sh' = [pc |-> "sd_check", quiet |-> quiet, ret |-> NoRet, downloaded |-> FALSE]
    /\ log' = <<>>
    /\ calls' = calls + 1
    /\ UNCHANGED <<files, torn, pc, fr, ret, cli, mn>>

NextSherpa == CallSherpa \/ sherpa_download

SpecSherpa == InitSherpa /\ [][NextSherpa]_vars

(***************************************************************************)
(* SpecRace: two invocations of the program download the same voice into   *)
(* the same models directory, their steps interleaved in any order; up to  *)
(* MaxCalls calls are made in all, and the two are followed for MaxLog     *)
(* events after the latest call.                                           *)
(***************************************************************************)
InitRace ==
    /\ files \in SUBSET {models_dir}
    /\ torn = {}
    /\ pc = [p \in Procs |-> "idle"]
    /\ fr = [p \in Procs |-> NoFrame]
    /\ ret = [p \in Procs |-> NoRet]
    /\ log = <<>>
    /\ sh = NoSh
    /\ cli = NoCli
    /\ mn = NoMain
    /\ calls = 0

\* an invocation calls download_voice("amy", quiet)
CallRace(p) ==
    /\ pc[p] \in {"idle", "dv_ret"}
    /\ calls < MaxCalls
    /\ fr' = [fr EXCEPT ![p] =
                 [id |-> "amy", quiet |-> TRUE, v |-> 0, src |-> 0, ext |-> 0,
                  caller |-> "race", pre |-> files, prev |-> <<"none">>]]
    /\ pc' = [pc EXCEPT ![p] = "dv_find"]
    /\ ret' = [ret EXCEPT ![p] = NoRet]
    /\ log' = <<>>
    /\ calls' = calls + 1
    /\ UNCHANGED <<files, torn, sh, cli, mn>>

\* the events of the two invocations that are followed
MaxLog == 8

NextRace ==
    /\ \E p \in Procs : CallRace(p) \/ download_voice(p)
    /\ Len(log') <= MaxLog

SpecRace == InitRace /\ [][NextRace]_vars

(***************************************************************************)
(* SpecCatalog: one run of the program with the download specification     *)
(* "list", on a models directory that holds up to MaxEntries directories   *)
(* among the model directories of the catalog and one of another name.     *)
(***************************************************************************)
\* a directory of the models directory that is no model directory of the
\* catalog
OtherDir == "amy-old"

\* a directory of the models directory, without or with its model.onnx
CatalogEntries ==
    LET names == {VOICE_CATALOG[v].model_dir : v \in Voices} \cup {OtherDir}
    IN  {{<<"dir", d>>} : d \in names} \cup {{<<"dir", d>>, DirModel(d)} : d \in names}

\* the contents of up to n directories
RECURSIVE DirsUpTo(_)
DirsUpTo(n) ==
    IF n = 0 THEN {{}}
    ELSE LET less == DirsUpTo(n - 1)
         IN  less \cup {fs \cup e : fs \in less, e \in CatalogEntries}

CatalogFs == {fs \cup {models_dir} : fs \in DirsUpTo(MaxEntries)}

InitCatalog ==
    /\ files \in CatalogFs
    /\ torn = {}
    /\ pc = [p \in Procs |-> "idle"]
    /\ fr = [p \in Procs |-> NoFrame]
    /\ ret = [p \in Procs |-> NoRet]
    /\ log = <<>>
    /\ sh = NoSh
    /\ \E q \in BOOLEAN, spec \in {"list", "LIST"} :
          cli = [DefaultCli EXCEPT !.download = Some(spec), !.quiet = q]
    /\ mn = StartMain
    /\ calls = 0

NextCatalog == m_download \/ bs_start

SpecCatalog == InitCatalog /\ [][NextCatalog]_vars

(***************************************************************************)
(* SpecMain: one run of the program, on any command line of a text or none  *)
(* and up to MaxFlags options, and any content of the models and engine    *)
(* directories.                                                            *)
(***************************************************************************)
MaxFlags == 2

\* the values of the options
TextArgs == {None, Some("hi"), Some(" "), Some("")}
VoiceArgs == {"melo", "amy", "AMY", "piper"}
InputArgs == {None, Some("a.md"), Some("a.TXT"), Some("a.pdf")}
OutputArgs == {None, Some("o.wav")}
DownloadArgs ==
    {None, Some("list"), Some("all"), Some("Amy"), Some("piper"), Some("2,18"),
     Some("2, x,18"), Some("x,"), Some("")}

AllCli ==
    [text : TextArgs, voice : VoiceArgs, speed : Speeds, fast : BOOLEAN,
     input : InputArgs, output : OutputArgs, quiet : BOOLEAN, list : BOOLEAN,
     download : DownloadArgs]

\* the options a command line sets, beside the text argument
Flags(c) == {f \in DOMAIN DefaultCli \ {"text"} : c[f] # DefaultCli[f]}

\* the options download mode never reads
SynthesisFlags == {"voice", "speed", "fast", "output"}

\* the command lines: up to MaxFlags options, and with a download
\* specification none of the options download mode never reads
CliArgs ==
    {c \in AllCli :
        /\ Cardinality(Flags(c)) <= MaxFlags
        /\ IsSome(c.download) => Flags(c) \cap SynthesisFlags = {}}

\* the models directory of a run that downloads all voices: every voice's
\* files are there, but for any of the files of one voice
AllFs ==
    LET all == {models_dir} \cup UNION {{dest(v, 1), dest(v, 2)} : v \in Voices}
    IN  {all \ missing : missing \in SUBSET {dest(find("amy"), 1), dest(find("amy"), 2)}}

InitMain ==
    /\ cli \in CliArgs
    /\ IF cli.download = Some("all")
       THEN files \in AllFs
       ELSE \E fs \in InitFs, engine \in SUBSET {sherpa_tts_path} : files = fs \cup engine
    /\ torn = {}
    /\ pc = [p \in Procs |-> "idle"]
    /\ fr = [p \in Procs |-> NoFrame]
    /\ ret = [p \in Procs |-> NoRet]
    /\ log = <<>>
    /\ sh = NoSh
    /\ mn = StartMain
    /\ calls = 0

NextMain == main \/ download_by_spec \/ download_voice(1) \/ synthesize \/ synthesize_to_file

SpecMain == InitMain /\ [][NextMain]_vars

\* C2: once the archive has been downloaded, the temporary archive does not
\* exist when SherpaDownloader::download returns, whatever the extraction did.
C2_TempArchiveDeleted ==
    (sh.pc = "sd_ret" /\ sh.downloaded) => ~exists(files, temp_tar)

(***************************************************************************)
(* Properties of download_voice, under SpecVoice.                          *)
(***************************************************************************)
Returned(p) == pc[p] = "dv_ret"
InCall(p) == pc[p] \notin {"idle"}

\* the events of kind k among the first n events of the log
NumEvents(k, n) == Cardinality({i \in 1..n : log[i][1] = k})
SourceIndex(name) == CHOOSE s \in 1..Len(DOWNLOAD_SOURCES) : DOWNLOAD_SOURCES[s] = name

\* C1: when download_voice returns DownloadFailed for a voice whose model
\* file did not exist before the call, the model file does not exist after it.
C1_FailedDownloadLeavesNoModel ==
    \A p \in Procs :
        (/\ Returned(p)
         /\ ret[p][1] = "Err" /\ ret[p][2] = "DownloadFailed"
         /\ ~exists(fr[p].pre, model_filename(fr[p].v)))
        => ~exists(files, model_filename(fr[p].v))

\* C3: when download_voice returns success for a catalog voice, is_installed
\* is true for it and TtsEngine::new does not fail with VoiceNotInstalled.
C3_SuccessImpliesInstalled ==
    \A p \in Procs :
        (Returned(p) /\ ret[p][1] = "Ok")
        => /\ is_installed(files, fr[p].id).ret
           /\ TtsEngine_new(files, fr[p].id).ret[2] # "VoiceNotInstalled"

\* C4: the sources are tried in the order of DOWNLOAD_SOURCES: a request goes
\* to source s only after each of the s-1 sources before it has failed (each
\* failure is followed by one remove_file); the call returns success without
\* any request to a later source, and it returns DownloadFailed with the
\* voice's name exactly when every source has failed.
C4_SourcesInOrder ==
    \A p \in {1} :
        /\ \A k \in 1..Len(log) :
              log[k][1] = "http"
              => NumEvents("remove", k - 1) = SourceIndex(log[k][2]) - 1
        /\ (Returned(p) /\ fr[p].v # 0 /\ ret[p][2] # "Other")
           => /\ (ret[p][1] = "Err")
                 <=> (NumEvents("remove", Len(log)) = Len(DOWNLOAD_SOURCES))
              /\ ret[p][1] = "Err"
                 => ret[p] = <<"Err", "DownloadFailed", VOICE_CATALOG[find(fr[p].id)].name>>
              /\ (ret[p][1] = "Ok" /\ HasHttp(log))
                 => \E k \in 1..Len(log) :
                       /\ log[k][1] = "http" /\ log[k][3] = Exts[Len(Exts)]
                       /\ \A j \in (k + 1)..Len(log) : log[j][1] \notin {"http", "remove"}

C4_Witness ==
    /\ Returned(1) /\ ret[1][1] = "Ok"
    /\ \E k \in 1..Len(log) : log[k][1] = "http" /\ log[k][2] = "hf_mirror"
    /\ \E k \in 1..Len(log) : log[k][1] = "http" /\ log[k][2] = "huggingface"

\* C5: when the voice's model file exists as the call begins, download_voice
\* returns success, sends no HTTP request and creates or deletes no file; and
\* a call that follows a successful call for the same voice sends no request.
C5_Idempotent ==
    \A p \in {1} :
        /\ (InCall(p) /\ fr[p].v # 0 /\ exists(fr[p].pre, model_filename(fr[p].v)))
           => /\ files = fr[p].pre
              /\ \A k \in 1..Len(log) : log[k][1] \notin {"http", "create", "remove"}
              /\ Returned(p) => ret[p] = <<"Ok", "true", "">>
        /\ (/\ InCall(p) /\ fr[p].prev # <<"none">> /\ fr[p].prev[2] = "Ok"
            /\ find(fr[p].prev[1]) = find(fr[p].id))
           => /\ ~HasHttp(log)
              /\ Returned(p) => ret[p] = <<"Ok", "true", "">>

C5_Witness ==
    /\ Returned(1) /\ ret[1][1] = "Ok" /\ ~HasHttp(log)
    /\ fr[1].prev = <<"amy", "Ok", TRUE>>
    /\ fr[1].id = "AMY"

\* an identifier that is the id of a catalog voice, compared in lower case
InCatalog(id) ==
    \E v \in Voices : to_lowercase(VOICE_CATALOG[v].id) = to_lowercase(id)

UnknownIds == {id \in CallIds : ~InCatalog(id)}

\* C6, as claimed: for an identifier that is not in the catalog, find is None,
\* download_voice and TtsEngine::new fail with VoiceNotFound before any file
\* system access, and is_installed is false without scanning the models
\* directory.
C6_UnknownIdNoFsAccess ==
    /\ \A p \in {1} :
          (InCall(p) /\ ~InCatalog(fr[p].id))
          => \/ pc[p] = "dv_find"
             \/ /\ Returned(p) /\ ret[p] = <<"Err", "VoiceNotFound", fr[p].id>>
                /\ log = <<>> /\ files = fr[p].pre
    /\ \A id \in UnknownIds :
             /\ find(id) = 0
             /\ TtsEngine_new(files, id) =
                    [ret |-> <<"Err", "VoiceNotFound", id>>, acc |-> <<>>]
             /\ is_installed(files, id) = [ret |-> FALSE, acc |-> <<>>]

\* C6, amended: as above for find, download_voice and TtsEngine::new; but
\* is_installed looks at the models directory, lists it when it exists, and is
\* true exactly when a directory that holds a model.onnx has a name that
\* contains the identifier, both in lower case.
C6_UnknownIdAmended ==
    /\ \A p \in {1} :
          (InCall(p) /\ ~InCatalog(fr[p].id))
          => \/ pc[p] = "dv_find"
             \/ /\ Returned(p) /\ ret[p] = <<"Err", "VoiceNotFound", fr[p].id>>
                /\ log = <<>> /\ files = fr[p].pre
    /\ \A id \in UnknownIds :
             /\ find(id) = 0
             /\ TtsEngine_new(files, id) =
                    [ret |-> <<"Err", "VoiceNotFound", id>>, acc |-> <<>>]
             /\ is_installed(files, id).ret
                <=> \E q \in files : /\ q[1] = "dir_model"
                                     /\ contains(to_lowercase(q[2]), to_lowercase(id))
             /\ is_installed(files, id).acc[1] = <<"exists", models_dir>>
             /\ exists(files, models_dir)
                => is_installed(files, id).acc[2] = <<"read_dir", models_dir>>

C6_Witness ==
    /\ Returned(1) /\ fr[1].id = "piper"
    /\ ret[1] = <<"Err", "VoiceNotFound", "piper">>
    /\ is_installed(files, "piper").ret
    /\ is_installed(files, "amy").ret

(***************************************************************************)
(* Properties of main, under SpecMain.                                     *)
(***************************************************************************)
HasEvent(kind) == \E i \in 1..Len(log) : log[i][1] = kind

\* C7: when an engine is requested for a catalog voice whose model file does
\* not exist, with or without its model directory, the program fails with
\* VoiceNotInstalled and no engine process has been spawned.
C7_AbsentFilesVoiceNotInstalled ==
    (/\ HasEvent("TtsEngine::new")
     /\ find(cli.voice) # 0
     /\ ~exists(files, model_path(find(cli.voice))))
    => /\ mn.err = <<"Err", "VoiceNotInstalled", cli.voice>>
       /\ ~HasEvent("spawn")

\* C8: when the resolved input, of the input file or of the text argument, is
\* empty or whitespace only, no engine is resolved and no process is spawned,
\* and the program exits non-zero with the empty-file or no-text error.
C8_EmptyInputRejected ==
    (IsSome(mn.resolved) /\ trim(mn.resolved[1]) = "")
    => /\ ~HasEvent("TtsEngine::new")
       /\ ~HasEvent("spawn")
       /\ mn.pc = "m_exit" =>
             /\ mn.exit # 0
             /\ mn.err[1] = "Err" /\ mn.err[2] \in {"EmptyFile", "NoTextProvided"}

\* C9: every playback is handed the sample rate of the selected voice, as
\* TtsEngine::sample_rate gives it.
C9_PlaybackRateOfVoice ==
    \A i \in 1..Len(log) :
        log[i][1] = "play" => log[i][2] = sample_rate(log[i][3])

\* the length scale the claim gives each speed, in hundredths
ClaimedScale(speed) ==
    CASE speed = "Slow" -> 120
      [] speed = "Normal" -> 100
      [] speed = "Fast" -> 80

\* C10: the length scale is 1.2 for slow, 1.0 for normal and 0.8 for fast, a
\* faster speed never has the larger one, and every engine run is passed the
\* length scale of the effective speed.
C10_LengthScaleOfSpeed ==
    /\ mn.speed \in Speeds =>
          /\ mn.speed = effective_speed(cli)
          /\ mn.length_scale = ClaimedScale(mn.speed)
          /\ \A faster \in Speeds :
                ClaimedScale(faster) < ClaimedScale(mn.speed)
                   => to_length_scale(faster) < mn.length_scale
    /\ \A i \in 1..Len(log) :
          log[i][1] = "spawn" =>
             /\ mn.speed \in Speeds
             /\ log[i][4] = ClaimedScale(effective_speed(cli))

\* a slow or fast run has reached the engine
C10_Witness ==
    /\ effective_speed(cli) # "Normal"
    /\ \E i \in 1..Len(log) : log[i][1] = "spawn" /\ log[i][4] # 100

\* C11: the effective speed is Fast whenever the fast flag is set, whatever
\* speed is selected, and the selected speed when the flag is not set.
C11_FastFlagOverrides ==
    mn.speed \in Speeds =>
       /\ cli.fast => mn.speed = "Fast"
       /\ ~cli.fast => mn.speed = cli.speed

\* the fast flag has overridden a selected slow speed
C11_Witness == cli.fast /\ cli.speed = "Slow" /\ mn.speed = "Fast"

(***************************************************************************)
(* Properties of download_by_spec, under SpecMain.                         *)
(***************************************************************************)
Events(kind) == SelectSeq(log, LAMBDA e : e[1] = kind)

\* the specification is a comma-separated list of numbers
IsNumberList(spec) ==
    /\ contains(spec, ",")
    /\ \A i \in 1..Len(split(spec)) : parse_usize(trim(split(spec)[i])) >= 0

InRange(n) == 1 <= n /\ n <= Len(VOICE_CATALOG)

\* the batch of a list of numbers has ended: one download_voice call for each
\* index in range, in order, for the voice at that position; the success count
\* is the number of those calls that returned Ok; the batch was not aborted
NumberListBatch ==
    LET idx == indices(to_lowercase(cli.download[1]))
        valid == SelectSeq(idx, InRange)
        called == Events("download_voice")
        done == Events("download_voice_ret")
    IN  /\ Len(called) = Len(valid)
        /\ \A i \in 1..Len(valid) : called[i][2] = VOICE_CATALOG[valid[i]].id
        /\ Len(done) = Len(valid)
        /\ mn.exit = 0
        /\ mn.success = Len(SelectSeq(done, LAMBDA e : e[2] = "Ok"))
        /\ Events("by_spec") = <<<<"by_spec", "Ok", mn.success>>>>

\* the indices out of range that were reported
InvalidReported ==
    Len(SelectSeq(Events("print"), LAMBDA e : e[2] = "Invalid number"))

InvalidIndices ==
    LET idx == indices(to_lowercase(cli.download[1]))
    IN  Len(idx) - Len(SelectSeq(idx, InRange))

NumberListDone ==
    /\ mn.pc = "m_exit"
    /\ IsSome(cli.download)
    /\ IsNumberList(to_lowercase(cli.download[1]))

\* C12: for a comma-separated list of numbers, download_by_spec calls
\* download_voice once for each index in range, reports every index out of
\* range and skips it without aborting, and returns the number of successful
\* calls.
C12_NumberList ==
    NumberListDone => NumberListBatch /\ InvalidReported = InvalidIndices

\* C12 amended: as C12, the report of an index out of range being printed
\* unless the quiet flag is set.
C12_NumberListAmended ==
    NumberListDone =>
       /\ NumberListBatch
       /\ InvalidReported = IF cli.quiet THEN 0 ELSE InvalidIndices

\* a list with an index in range, whose download succeeded, and one out of
\* range, which was reported
C12_Witness ==
    /\ NumberListDone
    /\ InvalidIndices = 1 /\ InvalidReported = 1
    /\ mn.success = 1 /\ HasHttp(log)

(***************************************************************************)
(* Properties of the dispatch of main, under SpecMain.                     *)
(***************************************************************************)
\* every event of kind `a` comes before every event of kind `b`
Precedes(a, b) ==
    \A j \in 1..Len(log) :
        log[j][1] = b => \A i \in j..Len(log) : log[i][1] # a

\* no text was resolved and nothing of synthesis happened
NoSynthesis ==
    /\ mn.resolved = None
    /\ ~HasEvent("read") /\ ~HasEvent("TtsEngine::new")
    /\ ~HasEvent("spawn") /\ ~HasEvent("play")

\* the input errors of text resolution
InputErrors == {"FileNotFound", "UnsupportedFileType", "EmptyFile", "NoTextProvided"}

\* C13: main dispatches in the order download, list, text, engine, synthesis,
\* play or write.  With a download specification the run is the download flow
\* only; with the list flag and no download specification no text is resolved
\* and nothing is synthesized; the engine is resolved only after the text was.
C13_DispatchOrder ==
    /\ IsSome(cli.download) =>
          /\ NoSynthesis /\ ~HasEvent("list")
          /\ mn.pc \in {"m_download", "bs_start", "bs_next", "bs_wait", "bs_single", "m_exit"}
    /\ (~IsSome(cli.download) /\ cli.list) =>
          /\ NoSynthesis
          /\ mn.pc \in {"m_download", "m_list", "m_exit"}
    /\ HasEvent("TtsEngine::new") =>
          /\ IsSome(mn.resolved) /\ mn.text = mn.resolved[1]
          /\ mn.err[1] = "Err" => mn.err[2] \notin InputErrors
    /\ Precedes("read", "TtsEngine::new")
    /\ Precedes("TtsEngine::new", "spawn")
    /\ Precedes("spawn", "play")
    /\ \A j \in 1..Len(log) :
          (log[j][1] = "spawn" /\ log[j][5] # wav_path) =>
             \A i \in j..Len(log) : ~(log[i][1] = "spawn" /\ log[i][5] = wav_path)
    /\ IsSome(cli.download)
          \/ (~HasEvent("download_voice") /\ ~HasEvent("catalog") /\ ~HasEvent("by_spec"))

\* a run with a download specification and the list flag has ended, after the
\* download flow
C13_Witness ==
    /\ IsSome(cli.download) /\ cli.list
    /\ mn.pc = "m_exit" /\ HasEvent("by_spec")

(***************************************************************************)
(* Properties of the exit status and of errors, under SpecMain.            *)
(***************************************************************************)
\* a download_voice call of the batch returned an error
BatchFailure == \E i \in 1..Len(log) : log[i][1] = "download_voice_ret" /\ log[i][2] = "Err"

\* an operation of the run failed
RunFailed == mn.err[1] = "Err" \/ BatchFailure

\* C14: the process exits with status 0 exactly when nothing failed, and with
\* status 1, the error shown, when an operation failed.
C14_ExitStatus ==
    mn.pc = "m_exit" =>
       /\ mn.exit \in {0, 1}
       /\ mn.exit = 0 <=> ~RunFailed
       /\ mn.exit = 1 => HasEvent("show")

\* C15: a failure of a download_voice call made by download_by_spec, in the
\* "all" form or in the form of a list of numbers, reaches main as an error.
C15_BatchFailurePropagated ==
    (mn.pc = "m_exit" /\ BatchFailure) =>
       /\ mn.err[1] = "Err"
       /\ \E i \in 1..Len(log) : log[i][1] = "by_spec" /\ log[i][2] = "Err"

(***************************************************************************)
(* Properties of clean_markdown, under SpecMain: the input file read by    *)
(* main is cleaned when its extension is md or markdown.                   *)
(***************************************************************************)
\* the lines of a text
RECURSIVE LinesFrom(_, _, _)
LinesFrom(s, i, start) ==
    IF i > Len(s) THEN {SubSeq(s, start, Len(s))}
    ELSE IF Ch(s, i) = "\n" THEN {SubSeq(s, start, i - 1)} \cup LinesFrom(s, i + 1, i + 1)
    ELSE LinesFrom(s, i + 1, start)

Lines(s) == LinesFrom(s, 1, 1)

\* the line is a heading or a list item
IsMarkerLine(l) ==
    \/ Match("header", l, 1) # 0
    \/ Match("bullet", l, 1) # 0
    \/ Match("numbered", l, 1) # 0

\* C16: no heading line and no list-item line of a markdown input, on any of
\* its lines, is a line of the cleaned text with its marker.
C16_MarkersStripped ==
    (IsSome(mn.raw) /\ extension(cli.input[1]) \in {"md", "markdown"}) =>
       \A l \in Lines(mn.raw[1]) : IsMarkerLine(l) => l \notin Lines(mn.resolved[1])

(***************************************************************************)
(* Properties of the sequencing of downloads, under SpecMain.              *)
(***************************************************************************)
\* the positions of download_voice while an HTTP transfer is in flight
Transfer == {"df_create", "df_stream"}

\* the last event before event i that is no print, 0 if none
RECURSIVE PrevEvent(_)
PrevEvent(i) ==
    IF i <= 1 THEN 0 ELSE IF log[i - 1][1] # "print" THEN i - 1 ELSE PrevEvent(i - 1)

\* C17: there are no concurrent downloads.  At most one transfer is in flight;
\* a mirror is requested only after the attempt at the mirror before it has
\* failed and cleaned up; in a batch a download_voice call is made only when
\* every call before it has returned, main waiting for each call.
C17_NoConcurrentDownloads ==
    /\ Cardinality({p \in Procs : pc[p] \in Transfer}) <= 1
    /\ pc[1] \notin {"idle", "dv_ret"} => mn.pc \in {"bs_wait", "bs_single"}
    /\ \A i \in 1..Len(log) :
          /\ log[i][1] = "download_voice" =>
                NumEvents("download_voice", i - 1) =
                   NumEvents("download_voice_ret", i - 1)
          /\ (log[i][1] = "http" /\ log[i][3] = Exts[1]) =>
                LET j == PrevEvent(i)
                IN  /\ j # 0
                    /\ IF SourceIndex(log[i][2]) = 1
                       THEN log[j][1] = "exists"
                       ELSE /\ log[j][1] = "remove"
                            /\ \E k \in 1..j : /\ log[k][1] = "http"
                                               /\ log[k][4] = log[i][4]
                                               /\ SourceIndex(log[k][2]) = SourceIndex(log[i][2]) - 1

\* in a download of all voices, a voice was requested from the second mirror
\* and the call for the next voice was made after it
C17_Witness ==
    /\ mn.spec = "all"
    /\ \E i, j \in 1..Len(log) :
          /\ i < j
          /\ log[i][1] = "http" /\ log[i][2] = DOWNLOAD_SOURCES[2]
          /\ log[j][1] = "download_voice"

(***************************************************************************)
(* Properties of concurrent invocations, under SpecRace.                   *)
(***************************************************************************)
\* C18: no lock guards download_voice against another invocation: its check
\* reports the voice as already installed whenever the model file exists,
\* also while the other invocation has created it and not yet written it
\* completely.
C18_NoLockOnInstall ==
    [][\A q \in Procs :
          (/\ pc[q] = "dv_check" /\ pc'[q] # "dv_check"
           /\ exists(files, model_filename(fr[q].v)))
          => (pc'[q] = "dv_ret" /\ ret'[q][1] = "Ok")]_vars

\* one invocation has reported the voice as already installed while the other
\* is still writing the model file
C18_Witness ==
    \E p, q \in Procs :
        /\ p # q
        /\ pc[p] = "df_stream" /\ fr[p].ext = 1
        /\ model_filename(fr[p].v) \in torn
        /\ fr[q].v = fr[p].v
        /\ pc[q] = "dv_ret" /\ ret[q][1] = "Ok" /\ fr[q].src = 0

(***************************************************************************)
(* Properties of the extraction of the engine, under SpecSherpa.           *)
(***************************************************************************)
\* tar has exited with `status` in the call that returned
TarExited(status) == \E i \in 1..Len(log) : log[i][1] = "tar_exit" /\ log[i][2] = status

\* C19: SherpaDownloader::download returns Ok only if the engine binary
\* exists; when tar exits zero and the binary is absent it returns the 'not
\* found in extracted archive' error, and when tar exits non-zero it returns
\* the extraction error with the standard-error text of tar.
C19_BinaryDecidesSuccess ==
    sh.pc = "sd_ret" =>
       /\ sh.ret[1] = "Ok" => exists(files, sherpa_tts_path)
       /\ (TarExited("zero") /\ ~exists(files, sherpa_tts_path)) =>
             sh.ret = <<"Err", "Other",
                        "sherpa-onnx-offline-tts binary not found in extracted archive">>
       /\ \A i \in 1..Len(log) :
             (log[i][1] = "tar_exit" /\ log[i][2] = "non-zero") =>
                sh.ret = <<"Err", "Other", "tar extraction failed: " \o log[i][3]>>

\* tar exited zero, the binary is absent and the call has returned
C19_Witness ==
    /\ sh.pc = "sd_ret"
    /\ TarExited("zero")
    /\ ~exists(files, sherpa_tts_path)

(***************************************************************************)
(* Properties of the engine run, under SpecMain.                           *)
(***************************************************************************)
\* the engine run that wrote to `out` exited with status zero
RanToZero(out) ==
    \E i \in 1..Len(log) :
        /\ log[i][1] = "engine_exit" /\ log[i][2] = "zero" /\ log[i][4] = out
        /\ log[i - 1][1] = "spawn" /\ log[i - 1][5] = out

C21_TempWavDeleted ==
    mn.pc = "m_synth_done" => ~exists(files, wav_path)

(***************************************************************************)
(* Properties of the files of a voice, under SpecVoice.                    *)
(***************************************************************************)
\* C22: when download_voice returns success, the model file and the config
\* file of the voice both exist, whatever the models directory held before.
C22_SuccessHasBothFiles ==
    \A p \in Procs :
        (Returned(p) /\ ret[p][1] = "Ok") =>
           /\ exists(files, dest(fr[p].v, 1))
           /\ exists(files, dest(fr[p].v, 2))

(***************************************************************************)
(* Properties of the number of engine runs, under SpecMain.                *)
(***************************************************************************)
\* C23: one run of the program spawns the engine at most once, whether the
\* result is played or written to the output file.
C23_EngineRunsOnce ==
    Len(Events("spawn")) <= 1

(***************************************************************************)
(* Properties of the catalog listing, under SpecCatalog.                   *)
(***************************************************************************)
\* C24: the listing of show_catalog marks a voice of the catalog as installed
\* exactly when VoiceCatalog::is_installed of its id is true.
C24_CatalogMarksInstalled ==
    \A i \in 1..Len(log) :
        log[i][1] = "catalog" =>
           \A v \in Voices :
               v \in log[i][2] <=> is_installed(files, VOICE_CATALOG[v].id).ret

(***************************************************************************)
(* Properties of the tokens of a download specification, under SpecMain.   *)
(***************************************************************************)
\* the run of a comma-separated specification has ended, its reports printed
CommaListDone ==
    /\ mn.pc = "m_exit"
    /\ IsSome(cli.download)
    /\ contains(cli.download[1], ",")
    /\ ~cli.quiet

\* C25: in a run that prints its reports, every token of a comma-separated
\* specification has led to one download_voice call or was reported as
\* invalid, and a specification that led to no call at all has not succeeded.
C25_TokensAccounted ==
    CommaListDone =>
       /\ Len(split(to_lowercase(cli.download[1]))) =
             Len(Events("download_voice")) + InvalidReported
       /\ Len(Events("download_voice")) = 0 => mn.exit # 0

(***************************************************************************)
(* Properties of the attempts of a call, under SpecVoiceFair.              *)
(***************************************************************************)
\* the requests of the call for file `e` at source `s`
Requests(s, e) ==
    {i \in 1..Len(log) :
        log[i][1] = "http" /\ log[i][2] = DOWNLOAD_SOURCES[s] /\ log[i][3] = Exts[e]}

\* each file of each mirror is requested at most once, and the config file of
\* a mirror only right after the model file of that mirror was written
AttemptsBounded ==
    /\ \A s \in 1..Len(DOWNLOAD_SOURCES), e \in 1..Len(Exts) :
          Cardinality(Requests(s, e)) <= 1
    /\ \A i \in 1..Len(log) :
          (log[i][1] = "http" /\ log[i][3] = Exts[2]) =>
             LET j == PrevEvent(i)
             IN  /\ j # 0
                 /\ log[j] = <<"create", dest(log[i][4], 1)>>
                 /\ \E k \in 1..j : /\ log[k][1] = "http" /\ log[k][3] = Exts[1]
                                    /\ log[k][2] = log[i][2]

\* C26: every download_voice call returns, after at most one attempt at each
\* mirror, of at most the model file and then the config file, the config
\* file being requested only after the model file of that mirror succeeded.
C26_BoundedAttempts ==
    /\ []AttemptsBounded
    /\ (pc[1] = "dv_find") ~> (pc[1] = "dv_ret")

\* a call has returned after requesting both files from both mirrors
C26_Witness ==
    /\ Returned(1)
    /\ \A s \in 1..Len(DOWNLOAD_SOURCES), e \in 1..Len(Exts) : Requests(s, e) # {}

====
